---- MODULE Spec2Model ----
(***************************************************************************)
(* Cortex Mentor VS Code extension: the Transport Client and Message       *)
(* Router of extension.ts (one module-level WebSocket handle, the status   *)
(* bar item, the legacy audio playback chain) and the Insight Sink of      *)
(* ChatViewProvider (pending queue, cached connection flag, messages       *)
(* posted to the webview).                                                 *)
(***************************************************************************)
EXTENDS Integers, Sequences, FiniteSets, TLC

(* ------------------------------ bounds --------------------------------- *)
MaxSockets == 2
MaxErrors == 1
MaxFrames == 2
MaxAudioJobs == 1
MaxInsights == 2
MaxPosted == 3
MaxViews == 2
MaxHostCalls == 2
MaxIssued == 4

(* ------------------------------ values --------------------------------- *)
null == 0

ErrorMessages == {"connect ECONNREFUSED 127.0.0.1:8000", "connect ETIMEDOUT"}

Texts == {"Hello", "Hi"}

Audios == {"", "QUJD"}

Platforms == {"darwin", "linux", "win32", "freebsd"}

VARIABLES
    phase,        \* "loaded" (module evaluated), "active", "deactivated"
    ws,           \* extension.ts:8   the module-level handle: null or a socket id
    sockets,      \* every WebSocket created so far, by id: readyState, errors emitted
    statusBar,    \* extension.ts:14  text, tooltip, command of the status bar item
    commands,     \* commands registered with the host
    frames,       \* number of frames the backend has sent so far
    platform,     \* os.platform() of the host, "" until playAudio first reads it
    audioJobs,    \* playAudio invocations and how far each has got
    view,         \* ChatViewProvider._view: 0 = undefined, else the webview's id
    visible,      \* whether the host shows the view
    messageQueue, \* ChatViewProvider._messageQueue
    isConnected,  \* ChatViewProvider._isConnected
    posted,       \* every webview.postMessage of the provider, in order
    calls,        \* every addInsight(text, audio) call made so far, in order
    hostCalls,    \* every vscode.commands.executeCommand of the provider, in order
    wv,           \* the webview document: loaded, chatHistory, container, status
    seen,         \* how many of `posted` the webview's message listener has handled
    outbox,       \* vscode.postMessage of the webview not yet handled by the provider
    store,        \* the History Store: the persisted conversation history
    persisted,    \* the history that was persisted when the session began
    ran,          \* how many of `hostCalls` the host has executed
    issued,       \* the connect / disconnect commands the user has run, the first MaxIssued
    backendUrl,   \* the setting cortex.backendUrl
    lastOp        \* the handler that ran last and the socket it ran for

vars == <<phase, ws, sockets, statusBar, commands, frames, platform, audioJobs,
          view, visible, messageQueue, isConnected, posted, calls, hostCalls,
          wv, seen, outbox, store, persisted, ran, issued, backendUrl, lastOp>>

transportVars == <<phase, ws, sockets, statusBar, commands, frames, platform, audioJobs,
                   issued, backendUrl>>

sinkVars == <<view, visible, messageQueue, isConnected, posted, calls, hostCalls>>

surfaceVars == <<wv, seen, outbox, store, persisted, ran>>

(* ------------------------------ frames --------------------------------- *)
\* A text frame's payload is its sequence of lexical tokens: punctuation,
\* quoted strings, and any other run of characters ("word").
P(c) == [t |-> "punct", v |-> c]

S(v) == [t |-> "str", v |-> v]

W(v) == [t |-> "word", v |-> v]

\* {"type":"insight","text":<text>,"audio":<audio>}
InsightTokens(text, audio) ==
    <<P("{"), S("type"), P(":"), S("insight"), P(","), S("text"), P(":"), S(text),
      P(","), S("audio"), P(":"), S(audio), P("}")>>

\* {"type":"insight","text":<text>}
InsightNoAudioTokens(text) ==
    <<P("{"), S("type"), P(":"), S("insight"), P(","), S("text"), P(":"), S(text), P("}")>>

\* {"type":"unknown_type","data":"some data"}
UnknownTypeTokens ==
    <<P("{"), S("type"), P(":"), S("unknown_type"), P(","), S("data"), P(":"),
      S("some data"), P("}")>>

\* not json{{
NotJsonTokens == <<W("not json"), P("{"), P("{")>>

TextFrame(tokens) == [binary |-> FALSE, payload |-> tokens]

BinaryFrame(bytes) == [binary |-> TRUE, payload |-> bytes]

NoFrame == [binary |-> FALSE, payload |-> <<W("none")>>]

TextFrames ==
    {TextFrame(InsightTokens("Hello", "")),
     TextFrame(InsightTokens("Hi", "QUJD")),
     TextFrame(InsightNoAudioTokens("Hello")),
     TextFrame(UnknownTypeTokens),
     TextFrame(NotJsonTokens),
     TextFrame(<<>>)}

\* WAV bytes, and bytes that read as {"type":"unknown_type","data":"some data"}
BinaryFrames == {BinaryFrame(<<W("RIFF")>>), BinaryFrame(UnknownTypeTokens)}

Frames == TextFrames \cup BinaryFrames

\* `data instanceof Buffer` (extension.ts:75): the socket library hands a
\* binary frame over as a Buffer and a text frame as a string, the two cases
\* the handler's branches name ("audio data" / "non-audio message").
IsBuffer(frame) == frame.binary

\* JSON.parse restricted to what the frames above need: a quoted string, or
\* an object of string members; anything else is a syntax error.
RECURSIVE ParseMembers(_, _, _)
ParseMembers(tokens, i, obj) ==
    IF i + 2 > Len(tokens) THEN [ok |-> FALSE, value |-> obj]
    ELSE IF tokens[i].t # "str" \/ tokens[i + 1] # P(":") \/ tokens[i + 2].t # "str"
    THEN [ok |-> FALSE, value |-> obj]
    ELSE LET k == tokens[i].v
             v == tokens[i + 2].v
             obj2 == [x \in DOMAIN obj \cup {k} |-> IF x = k THEN v ELSE obj[x]]
         IN  IF i + 3 > Len(tokens) THEN [ok |-> FALSE, value |-> obj2]
             ELSE IF tokens[i + 3] = P("}")
             THEN [ok |-> i + 3 = Len(tokens), value |-> obj2]
             ELSE IF tokens[i + 3] = P(",")
             THEN ParseMembers(tokens, i + 4, obj2)
             ELSE [ok |-> FALSE, value |-> obj2]

EmptyObject == [x \in {} |-> ""]

JSONparse(tokens) ==
    IF Len(tokens) = 0 THEN [ok |-> FALSE, value |-> EmptyObject]
    ELSE IF Len(tokens) = 1 /\ tokens[1].t = "str"
    THEN [ok |-> TRUE, value |-> EmptyObject]
    ELSE IF tokens[1] # P("{") THEN [ok |-> FALSE, value |-> EmptyObject]
    ELSE IF Len(tokens) = 2 /\ tokens[2] = P("}")
    THEN [ok |-> TRUE, value |-> EmptyObject]
    ELSE ParseMembers(tokens, 2, EmptyObject)

\* parseWebSocketMessage of the test suite: the parsed message, or null
parseWebSocketMessage(data) ==
    LET r == JSONparse(data) IN
    IF r.ok THEN [isNull |-> FALSE, message |-> r.value]
    ELSE [isNull |-> TRUE, message |-> EmptyObject]

\* a member of a parsed message, or the default when it is undefined
Member(obj, k, default) == IF k \in DOMAIN obj THEN obj[k] ELSE default

\* the handler that ran last: its name, its socket, the frame or the error
\* message it was given
Op(name, s) == [op |-> name, sock |-> s, frame |-> NoFrame, message |-> ""]

(* ----------------------------- status bar ------------------------------ *)
NoStatusBar == [text |-> "", state |-> "", message |-> "", command |-> ""]

\* extension.ts:15-17 and 85-87: tooltip 'Cortex Mentor: Disconnected'
DisconnectedBar ==
    [text |-> "$(plug) Cortex", state |-> "Disconnected", message |-> "",
     command |-> "cortex-vs.connect"]

\* extension.ts:63-64: text and tooltip change, the command is left as it is
ConnectingBar(bar) ==
    [bar EXCEPT !.text = "$(sync~spin) Cortex", !.state = "Connecting", !.message = ""]

\* extension.ts:69-71
ConnectedBar(bar) ==
    [bar EXCEPT !.text = "$(zap) Cortex", !.state = "Connected", !.message = "",
                !.command = "cortex-vs.disconnect"]

\* extension.ts:93-94: tooltip `Cortex Mentor: Error - ${error.message}`
ErrorBar(bar, msg) ==
    [bar EXCEPT !.text = "$(error) Cortex", !.state = "Error", !.message = msg]

\* The ConnectionState the status bar displays
ConnectionState == statusBar.state

(* ------------------------------ sockets -------------------------------- *)
SocketIds == 1..Len(sockets)

\* the default of the setting cortex.backendUrl, and a user's override
DefaultBackendUrl == "ws://localhost:8000/ws"

BackendUrls == {DefaultBackendUrl, "ws://custom:9000/ws"}

\* new WebSocket('ws://localhost:8000/ws') (extension.ts:65)
NewSocket == [readyState |-> "CONNECTING", errors |-> 0, url |-> "ws://localhost:8000/ws"]

\* WebSocket.close(): starts the closing handshake of a socket that is
\* connecting or open; nothing on a socket already closing or closed.
CloseSocket(sock) ==
    IF sock.readyState \in {"CONNECTING", "OPEN"}
    THEN [sock EXCEPT !.readyState = "CLOSING"]
    ELSE sock

\* `if (ws) { ws.close(); }` (extension.ts:95-97, 102-104, 115-117)
CloseHandle(h, socks) ==
    IF h # null THEN [socks EXCEPT ![h] = CloseSocket(socks[h])] ELSE socks

Live(socks) == {s \in 1..Len(socks) : socks[s].readyState # "CLOSED"}

(* ------------------------- Transport Client --------------------------- *)
\* connect that shows "Connecting..." again although a handle exists
ConnectEffectRestartsStatus(h, socks, bar) ==
    IF h # null
    THEN [ws |-> h, sockets |-> socks, statusBar |-> ConnectingBar(bar)]
    ELSE [ws |-> Len(socks) + 1,
          sockets |-> Append(socks, NewSocket),
          statusBar |-> ConnectingBar(bar)]

\* connect without the `if (ws) return` guard
ConnectEffectNoGuard(h, socks, bar) ==
    [ws |-> Len(socks) + 1,
     sockets |-> Append(socks, NewSocket),
     statusBar |-> ConnectingBar(bar)]

\* connect (extension.ts:59-99) as a state change of the handle, the sockets
\* and the status bar
ConnectEffect(h, socks, bar) ==
    IF h # null
    THEN [ws |-> h, sockets |-> socks, statusBar |-> bar]
    ELSE [ws |-> Len(socks) + 1,
          sockets |-> Append(socks, NewSocket),
          statusBar |-> ConnectingBar(bar)]

\* the command log: the first MaxIssued commands the user ran, in order
Issue(log, command) == IF Len(log) < MaxIssued THEN Append(log, command) ELSE log

CanConnect == ws # null \/ Len(sockets) < MaxSockets

\* activate (extension.ts:10-112): status bar item, the two commands, connect()
Activate ==
    /\ phase = "loaded"
    /\ CanConnect
    /\ LET r == ConnectEffect(ws, sockets, DisconnectedBar) IN
        /\ ws' = r.ws
        /\ sockets' = r.sockets
        /\ statusBar' = r.statusBar
    /\ phase' = "active"
    /\ commands' = {"cortex-vs.connect", "cortex-vs.disconnect"}
    /\ lastOp' = Op("activate", ws')
    /\ UNCHANGED <<frames, platform, audioJobs>>
    /\ UNCHANGED <<sinkVars, surfaceVars>>
    /\ UNCHANGED <<issued, backendUrl>>

\* the cortex-vs.connect command, whoever keeps the command log
RunConnect ==
    /\ phase = "active"
    /\ "cortex-vs.connect" \in commands
    /\ CanConnect
    /\ LET r == ConnectEffect(ws, sockets, statusBar) IN
        /\ ws' = r.ws
        /\ sockets' = r.sockets
        /\ statusBar' = r.statusBar
    /\ lastOp' = Op("connect", ws')
    /\ UNCHANGED <<phase, commands, frames, platform, audioJobs, backendUrl>>
    /\ UNCHANGED <<sinkVars, surfaceVars>>

\* the cortex-vs.connect command
Connect ==
    /\ RunConnect
    /\ UNCHANGED issued

\* the cortex-vs.connect command, entered in the command log
LoggedConnect ==
    /\ RunConnect
    /\ issued' = Issue(issued, "connect")

\* disconnect that reports an error when there is nothing to close
DisconnectEffectReportsError(h, socks, bar) ==
    IF h # null
    THEN [sockets |-> CloseHandle(h, socks), statusBar |-> bar]
    ELSE [sockets |-> socks, statusBar |-> ErrorBar(bar, "not connected")]

\* disconnect that only drops the status and leaves the socket alone
DisconnectEffectNoClose(h, socks, bar) ==
    [sockets |-> socks, statusBar |-> bar]

\* disconnect (extension.ts:101-105)
DisconnectEffect(h, socks, bar) ==
    [sockets |-> CloseHandle(h, socks), statusBar |-> bar]

\* the cortex-vs.disconnect command, whoever keeps the command log
RunDisconnect ==
    /\ phase = "active"
    /\ "cortex-vs.disconnect" \in commands
    /\ LET r == DisconnectEffect(ws, sockets, statusBar) IN
        /\ sockets' = r.sockets
        /\ statusBar' = r.statusBar
    /\ lastOp' = Op("disconnect", ws)
    /\ UNCHANGED <<phase, ws, commands, frames, platform, audioJobs, backendUrl>>
    /\ UNCHANGED <<sinkVars, surfaceVars>>

\* the cortex-vs.disconnect command
Disconnect ==
    /\ RunDisconnect
    /\ UNCHANGED issued

\* the cortex-vs.disconnect command, entered in the command log
LoggedDisconnect ==
    /\ RunDisconnect
    /\ issued' = Issue(issued, "disconnect")

\* the user changes the setting cortex.backendUrl
UpdateConfiguration(url) ==
    /\ url # backendUrl
    /\ backendUrl' = url
    /\ lastOp' = Op("updateConfiguration", null)
    /\ UNCHANGED <<phase, ws, sockets, statusBar, commands, frames, platform, audioJobs, issued>>
    /\ UNCHANGED <<sinkVars, surfaceVars>>

\* a deactivate that leaves the socket open
DeactivateEffectNoClose(h, socks) == socks

\* deactivate (extension.ts:114-118) as a change of the sockets
DeactivateEffect(h, socks) == CloseHandle(h, socks)

\* deactivate (extension.ts:114-118); the host then disposes the subscriptions
Deactivate ==
    /\ phase = "active"
    /\ sockets' = DeactivateEffect(ws, sockets)
    /\ phase' = "deactivated"
    /\ commands' = {}
    /\ lastOp' = Op("deactivate", ws)
    /\ UNCHANGED <<ws, statusBar, frames, platform, audioJobs>>
    /\ UNCHANGED <<sinkVars, surfaceVars>>
    /\ UNCHANGED <<issued, backendUrl>>

\* ws.on('open') (extension.ts:67-72)
Opened(s) ==
    /\ sockets[s].readyState = "CONNECTING"
    /\ sockets' = [sockets EXCEPT ![s].readyState = "OPEN"]
    /\ statusBar' = ConnectedBar(statusBar)
    /\ lastOp' = Op("open", s)
    /\ UNCHANGED <<phase, ws, commands, frames, platform, audioJobs>>
    /\ UNCHANGED <<sinkVars, surfaceVars>>
    /\ UNCHANGED <<issued, backendUrl>>

\* a close handler that forgets `ws = null`
CloseHandlerKeepsHandle(h, socks, bar) ==
    [ws |-> h, sockets |-> socks, statusBar |-> DisconnectedBar]

\* a close handler that reconnects by itself
CloseHandlerReconnects(h, socks, bar) ==
    IF Len(socks) < MaxSockets
    THEN ConnectEffect(null, socks, DisconnectedBar)
    ELSE [ws |-> null, sockets |-> socks, statusBar |-> DisconnectedBar]

\* a close handler that clears the handle and leaves the status bar as it is
CloseHandlerKeepsStatus(h, socks, bar) ==
    [ws |-> null, sockets |-> socks, statusBar |-> bar]

\* a close handler that does not put the connect command back
CloseHandlerKeepsCommand(h, socks, bar) ==
    [ws |-> null, sockets |-> socks,
     statusBar |-> [DisconnectedBar EXCEPT !.command = bar.command]]

\* ws.on('close') (extension.ts:83-89)
CloseHandler(h, socks, bar) ==
    [ws |-> null, sockets |-> socks, statusBar |-> DisconnectedBar]

\* the socket's close event: after a close was started, or when the backend
\* ends an open connection
Closed(s) ==
    /\ sockets[s].readyState \in {"OPEN", "CLOSING"}
    /\ LET r == CloseHandler(ws, [sockets EXCEPT ![s].readyState = "CLOSED"], statusBar) IN
        /\ ws' = r.ws
        /\ sockets' = r.sockets
        /\ statusBar' = r.statusBar
    /\ lastOp' = Op("close", s)
    /\ UNCHANGED <<phase, commands, frames, platform, audioJobs>>
    /\ UNCHANGED <<sinkVars, surfaceVars>>
    /\ UNCHANGED <<issued, backendUrl>>

\* an error handler that reports the error and leaves the socket as it is
ErrorHandlerNoClose(h, socks, bar, msg) ==
    [sockets |-> socks, statusBar |-> ErrorBar(bar, msg)]

\* an error handler that closes the socket only when it is open
ErrorHandlerClosesOnlyOpen(h, socks, bar, msg) ==
    [sockets |-> IF h # null /\ socks[h].readyState = "OPEN"
                 THEN CloseHandle(h, socks) ELSE socks,
     statusBar |-> ErrorBar(bar, msg)]

\* ws.on('error') (extension.ts:91-98)
ErrorHandler(h, socks, bar, msg) ==
    [sockets |-> CloseHandle(h, socks), statusBar |-> ErrorBar(bar, msg)]

\* the socket's error event (refused or timed out while connecting, a
\* protocol or network failure later); a close event follows it
Errored(s, msg) ==
    /\ sockets[s].readyState # "CLOSED"
    /\ sockets[s].errors < MaxErrors
    /\ LET r == ErrorHandler(ws, [sockets EXCEPT ![s].errors = @ + 1], statusBar, msg) IN
        /\ sockets' = r.sockets
        /\ statusBar' = r.statusBar
    /\ lastOp' = [Op("error", s) EXCEPT !.message = msg]
    /\ UNCHANGED <<phase, ws, commands, frames, platform, audioJobs>>
    /\ UNCHANGED <<sinkVars, surfaceVars>>
    /\ UNCHANGED <<issued, backendUrl>>

(* --------------------------- Message Router ---------------------------- *)
\* playAudio (extension.ts:21-25) up to the fs.writeFile call
NewAudioJob == [stage |-> "writing", file |-> FALSE]

\* a message handler that takes every frame for audio
MessageHandlerPlaysText(frame, jobs) == Append(jobs, NewAudioJob)

\* ws.on('message') (extension.ts:74-81): the playAudio calls it makes
MessageHandler(frame, jobs) ==
    IF IsBuffer(frame) THEN Append(jobs, NewAudioJob) ELSE jobs

\* the player command of playAudio (extension.ts:31-41), "" when unsupported
PlayerCommand(os) ==
    IF os = "darwin" THEN "afplay"
    ELSE IF os = "linux" THEN "aplay"
    ELSE IF os = "win32" THEN "start"
    ELSE ""

\* the fs.writeFile callback of playAudio (extension.ts:25-42); os.platform()
\* is one fixed value of the host, whichever it is
WriteFileDone(j, err, os) ==
    /\ audioJobs[j].stage = "writing"
    /\ platform # "" => os = platform
    /\ platform' = IF err THEN platform ELSE os
    /\ audioJobs' = [audioJobs EXCEPT ![j] =
            IF err THEN [stage |-> "writeFailed", file |-> FALSE]
            ELSE IF PlayerCommand(os) = "" THEN [stage |-> "unsupported", file |-> TRUE]
            ELSE [stage |-> "playing", file |-> TRUE]]
    /\ lastOp' = Op("writeFile", null)
    /\ UNCHANGED <<phase, ws, sockets, statusBar, commands, frames>>
    /\ UNCHANGED <<sinkVars, surfaceVars>>
    /\ UNCHANGED <<issued, backendUrl>>

\* the exec callback of playAudio (extension.ts:43-50): whether or not the
\* player failed, fs.unlink is issued
ExecDone(j, error) ==
    /\ audioJobs[j].stage = "playing"
    /\ audioJobs' = [audioJobs EXCEPT ![j].stage = "unlinking"]
    /\ lastOp' = Op("exec", null)
    /\ UNCHANGED <<phase, ws, sockets, statusBar, commands, frames, platform>>
    /\ UNCHANGED <<sinkVars, surfaceVars>>
    /\ UNCHANGED <<issued, backendUrl>>

\* the fs.unlink callback of playAudio (extension.ts:50-54)
UnlinkDone(j, unlinkErr) ==
    /\ audioJobs[j].stage = "unlinking"
    /\ audioJobs' = [audioJobs EXCEPT ![j] =
            IF unlinkErr THEN [stage |-> "unlinkFailed", file |-> TRUE]
            ELSE [stage |-> "deleted", file |-> FALSE]]
    /\ lastOp' = Op("unlink", null)
    /\ UNCHANGED <<phase, ws, sockets, statusBar, commands, frames, platform>>
    /\ UNCHANGED <<sinkVars, surfaceVars>>
    /\ UNCHANGED <<issued, backendUrl>>

(* ---------------------------- Insight Sink ---------------------------- *)
HistoryEntry(text, audio, timestamp) == [text |-> text, audio |-> audio, timestamp |-> timestamp]

Histories == {<<>>, <<HistoryEntry("Hello", "", "10:00")>>}

\* the JavaScript value `undefined` where a history is expected: no history
undefined == <<HistoryEntry("undefined", "undefined", "undefined")>>

Insight(text, audio) == [text |-> text, audio |-> audio]

\* the two insights of the scenarios: ("Hello", "") and ("Hi", "QUJD")
SampleInsights ==
    {i \in [text : Texts, audio : Audios] : (i.text = "Hello") <=> (i.audio = "")}

\* the three message kinds the provider posts to the webview `v`
AddInsightMsg(v, text, audio) ==
    [view |-> v, type |-> "addInsight", text |-> text, audio |-> audio,
     isConnected |-> FALSE, history |-> <<>>]

StatusUpdateMsg(v, b) ==
    [view |-> v, type |-> "statusUpdate", text |-> "", audio |-> "",
     isConnected |-> b, history |-> <<>>]

LoadHistoryMsg(v, history) ==
    [view |-> v, type |-> "loadHistory", text |-> "", audio |-> "",
     isConnected |-> FALSE, history |-> history]

\* an executeCommand call: the command, its argument, and how many messages
\* the provider had posted when it made the call
HostCall(command, history, at) == [command |-> command, history |-> history, at |-> at]

\* addInsight without the queue: an insight is lost while no view is attached
AddInsightEffectDropsUnattached(v, vis, queue, out, text, audio) ==
    IF v # 0
    THEN [visible |-> TRUE, messageQueue |-> queue,
          posted |-> Append(out, AddInsightMsg(v, text, audio))]
    ELSE [visible |-> vis, messageQueue |-> queue, posted |-> out]

\* addInsight that queues the insight even when it has forwarded it
AddInsightEffectQueuesToo(v, vis, queue, out, text, audio) ==
    IF v # 0
    THEN [visible |-> TRUE, messageQueue |-> Append(queue, Insight(text, audio)),
          posted |-> Append(out, AddInsightMsg(v, text, audio))]
    ELSE [visible |-> vis, messageQueue |-> Append(queue, Insight(text, audio)),
          posted |-> out]

\* ChatViewProvider.addInsight (part_001:74-82) on the provider's fields
AddInsightEffect(v, vis, queue, out, text, audio) ==
    IF v # 0
    THEN [visible |-> TRUE, messageQueue |-> queue,
          posted |-> Append(out, AddInsightMsg(v, text, audio))]
    ELSE [visible |-> vis, messageQueue |-> Append(queue, Insight(text, audio)),
          posted |-> out]

\* a flush with `if` in place of `while`: only the head of the queue leaves
FlushQueueOnlyHead(v, vis, queue, out) ==
    IF Len(queue) = 0
    THEN [visible |-> vis, messageQueue |-> queue, posted |-> out]
    ELSE AddInsightEffect(v, vis, Tail(queue), out, Head(queue).text, Head(queue).audio)

\* the flush loop of resolveWebviewView (part_001:58-64): shift the head,
\* addInsight it, until the queue is empty
RECURSIVE FlushQueue(_, _, _, _)
FlushQueue(v, vis, queue, out) ==
    IF Len(queue) = 0
    THEN [visible |-> vis, messageQueue |-> queue, posted |-> out]
    ELSE LET msg == Head(queue)
             r == AddInsightEffect(v, vis, Tail(queue), out, msg.text, msg.audio)
         IN  IF Len(r.messageQueue) >= Len(queue)
             THEN r
             ELSE FlushQueue(v, r.visible, r.messageQueue, r.posted)

\* ChatViewProvider.setConnectionStatus (part_001:67-72): the messages posted
SetConnectionStatusPosts(v, out, b) ==
    IF v # 0 THEN Append(out, StatusUpdateMsg(v, b)) ELSE out

\* a loadHistory without the `if (this._view)` test
LoadHistoryPostsUnattached(v, out, history) ==
    Append(out, LoadHistoryMsg(v, history))

\* ChatViewProvider.loadHistory (part_001:84-88): the messages posted
LoadHistoryPosts(v, out, history) ==
    IF v # 0 THEN Append(out, LoadHistoryMsg(v, history)) ELSE out

\* a message handler that passes what it cannot parse on to the sink
RouterForwardsUnparsed(frame) ==
    IF ~frame.binary /\ parseWebSocketMessage(frame.payload).isNull
    THEN <<Insight("", "")>>
    ELSE <<>>

\* ws.on('message') (extension.ts:74-81): the insights it hands to the
\* ChatViewProvider; the handler has no call into the provider
RouterForwards(frame) == <<>>

\* a frame from the backend arrives on an open socket
Message(s, frame) ==
    /\ sockets[s].readyState = "OPEN"
    /\ frames < MaxFrames
    /\ IsBuffer(frame) => Len(audioJobs) < MaxAudioJobs
    /\ frames' = frames + 1
    /\ audioJobs' = MessageHandler(frame, audioJobs)
    /\ LET fwd == RouterForwards(frame) IN
        IF fwd = <<>>
        THEN UNCHANGED <<visible, messageQueue, posted, calls>>
        ELSE LET r == AddInsightEffect(view, visible, messageQueue, posted,
                                       fwd[1].text, fwd[1].audio) IN
             /\ visible' = r.visible
             /\ messageQueue' = r.messageQueue
             /\ posted' = r.posted
             /\ calls' = Append(calls, fwd[1])
    /\ lastOp' = [Op("message", s) EXCEPT !.frame = frame]
    /\ UNCHANGED <<phase, ws, sockets, statusBar, commands, platform>>
    /\ UNCHANGED <<view, isConnected, hostCalls>>
    /\ UNCHANGED surfaceVars
    /\ UNCHANGED <<issued, backendUrl>>

\* provider.addInsight(text, audio)
AddInsight(text, audio) ==
    /\ Len(calls) < MaxInsights
    /\ Len(posted) < MaxPosted
    /\ LET r == AddInsightEffect(view, visible, messageQueue, posted, text, audio) IN
        /\ visible' = r.visible
        /\ messageQueue' = r.messageQueue
        /\ posted' = r.posted
    /\ calls' = Append(calls, Insight(text, audio))
    /\ lastOp' = Op("addInsight", null)
    /\ UNCHANGED <<view, isConnected, hostCalls>>
    /\ UNCHANGED <<transportVars, surfaceVars>>

BoolText(b) == IF b THEN "true" ELSE "false"

\* provider.setConnectionStatus(b)
SetConnectionStatus(b) ==
    /\ Len(posted) < MaxPosted
    /\ isConnected' = b
    /\ posted' = SetConnectionStatusPosts(view, posted, b)
    /\ lastOp' = [Op("setConnectionStatus", null) EXCEPT !.message = BoolText(b)]
    /\ UNCHANGED <<view, visible, messageQueue, calls, hostCalls>>
    /\ UNCHANGED <<transportVars, surfaceVars>>

\* provider.loadHistory(history)
LoadHistory(history) ==
    /\ Len(posted) < MaxPosted
    /\ posted' = LoadHistoryPosts(view, posted, history)
    /\ lastOp' = Op("loadHistory", null)
    /\ UNCHANGED <<view, visible, messageQueue, isConnected, calls, hostCalls>>
    /\ UNCHANGED <<transportVars, surfaceVars>>

\* the webview document as its script leaves it before the load event:
\* `let chatHistory = []` (part_001:470), an empty #chat-container and the
\* status text "Disconnected" of the markup (part_001:430-437)
FreshWebview ==
    [stage |-> "loading", chatHistory |-> <<>>, container |-> <<>>, status |-> FALSE]

\* the host attaches a webview: resolveWebviewView (part_001:15-65); setting
\* webview.html starts a new document, and the queue is flushed to it
ResolveWebviewView ==
    /\ view < MaxViews
    /\ Len(posted) + Len(messageQueue) <= MaxPosted
    /\ view' = view + 1
    /\ LET r == FlushQueue(view', TRUE, messageQueue, posted) IN
        /\ visible' = r.visible
        /\ messageQueue' = r.messageQueue
        /\ posted' = r.posted
    /\ wv' = FreshWebview
    /\ seen' = Len(posted)
    /\ outbox' = <<>>
    /\ lastOp' = Op("resolveWebviewView", null)
    /\ UNCHANGED <<isConnected, calls, hostCalls, store, persisted, ran>>
    /\ UNCHANGED transportVars

\* the user collapses the view
HideView ==
    /\ view # 0
    /\ visible
    /\ visible' = FALSE
    /\ lastOp' = Op("hideView", null)
    /\ UNCHANGED <<view, messageQueue, isConnected, posted, calls, hostCalls>>
    /\ UNCHANGED <<transportVars, surfaceVars>>

\* a webviewLoaded handler that restores the status before it asks for the history
OnWebviewLoadedStatusFirst(v, out, hc, cached) ==
    [hostCalls |-> Append(hc, HostCall("cortex.loadChatHistory", <<>>,
                                       Len(SetConnectionStatusPosts(v, out, cached)))),
     posted |-> SetConnectionStatusPosts(v, out, cached)]

\* a webviewLoaded handler that only asks for the history
OnWebviewLoadedNoStatus(v, out, hc, cached) ==
    [hostCalls |-> Append(hc, HostCall("cortex.loadChatHistory", <<>>, Len(out))),
     posted |-> out]

\* onDidReceiveMessage, case 'webviewLoaded' (part_001:48-54): executeCommand
\* of the history load, then setConnectionStatus(this._isConnected)
OnWebviewLoaded(v, out, hc, cached) ==
    [hostCalls |-> Append(hc, HostCall("cortex.loadChatHistory", <<>>, Len(out))),
     posted |-> SetConnectionStatusPosts(v, out, cached)]

\* a saveHistory handler that forwards the history without its newest entry
OnSaveHistoryDropsLast(out, hc, history) ==
    Append(hc, HostCall("cortex.saveChatHistory",
                        IF Len(history) = 0 THEN history
                        ELSE SubSeq(history, 1, Len(history) - 1),
                        Len(out)))

\* onDidReceiveMessage, case 'saveHistory' (part_001:43-47)
OnSaveHistory(out, hc, history) ==
    Append(hc, HostCall("cortex.saveChatHistory", history, Len(out)))

\* the provider's handler for a webviewLoaded message
WebviewLoadedHandler ==
    /\ view # 0
    /\ Len(posted) < MaxPosted
    /\ Len(hostCalls) < MaxHostCalls
    /\ LET r == OnWebviewLoaded(view, posted, hostCalls, isConnected) IN
        /\ hostCalls' = r.hostCalls
        /\ posted' = r.posted
    /\ isConnected' = isConnected
    /\ lastOp' = Op("webviewLoaded", null)
    /\ UNCHANGED <<view, visible, messageQueue, calls>>
    /\ UNCHANGED transportVars

\* the provider's handler for a saveHistory message
SaveHistoryHandler(history) ==
    /\ view # 0
    /\ Len(hostCalls) < MaxHostCalls
    /\ hostCalls' = OnSaveHistory(posted, hostCalls, history)
    /\ lastOp' = Op("saveHistory", null)
    /\ UNCHANGED <<view, visible, messageQueue, isConnected, posted, calls>>
    /\ UNCHANGED transportVars

(* ------------------------- Presentation Surface ------------------------ *)
\* what toLocaleTimeString([], {hour: '2-digit', minute: '2-digit'}) returns
\* while the session lasts
Times == {"10:01"}

MaxOutbox == 2

MaxSessionInsights == 1

MaxSessionViews == 1

\* the messages the webview script posts to the provider
WebviewLoadedMsg == [type |-> "webviewLoaded", history |-> <<>>]

SaveHistoryMsg(chatHistory) == [type |-> "saveHistory", history |-> chatHistory]

\* a renderMessage that builds the player and starts the timer for every entry
renderMessageAlwaysPlays(container, text, audioBase64, timestamp, autoPlay) ==
    Append(container,
           [text |-> text, timestamp |-> timestamp, audio |-> audioBase64,
            auto |-> IF autoPlay THEN "scheduled" ELSE "none"])

\* renderMessage (part_001:639-722): one element appended to #chat-container;
\* an audio element only `if (audioBase64)`, and the 500 ms auto-play timer
\* only for an audio element rendered with autoPlay
renderMessage(container, text, audioBase64, timestamp, autoPlay) ==
    Append(container,
           [text |-> text, timestamp |-> timestamp, audio |-> audioBase64,
            auto |-> IF audioBase64 # "" /\ autoPlay THEN "scheduled" ELSE "none"])

\* history.forEach(msg => renderMessage(msg.text, msg.audio, msg.timestamp, false))
RECURSIVE renderAll(_, _)
renderAll(container, history) ==
    IF Len(history) = 0 THEN container
    ELSE renderAll(renderMessage(container, Head(history).text, Head(history).audio,
                                 Head(history).timestamp, FALSE),
                   Tail(history))

\* an addMessage that renders new entries the way loadHistory does
addMessageSilent(w, out, text, audioBase64, now) ==
    LET h == Append(w.chatHistory, HistoryEntry(text, audioBase64, now)) IN
    [wv |-> [w EXCEPT !.chatHistory = h,
                      !.container = renderMessage(w.container, text, audioBase64, now, FALSE)],
     outbox |-> Append(out, SaveHistoryMsg(h))]

\* addMessage(text, audioBase64, true) (part_001:628-637): push the entry,
\* saveHistory(), renderMessage(..., true)
addMessage(w, out, text, audioBase64, now) ==
    LET h == Append(w.chatHistory, HistoryEntry(text, audioBase64, now)) IN
    [wv |-> [w EXCEPT !.chatHistory = h,
                      !.container = renderMessage(w.container, text, audioBase64, now, TRUE)],
     outbox |-> Append(out, SaveHistoryMsg(h))]

\* a loadHistory without `if (!history) return`: chatHistory is overwritten and
\* the container cleared before history.forEach throws
loadHistoryNoGuard(w, history) ==
    IF history = undefined
    THEN [w EXCEPT !.chatHistory = history, !.container = <<>>]
    ELSE [w EXCEPT !.chatHistory = history, !.container = renderAll(<<>>, history)]

\* loadHistory(history) of the webview script (part_001:612-626)
loadHistory(w, history) ==
    IF history = undefined
    THEN w
    ELSE [w EXCEPT !.chatHistory = history, !.container = renderAll(<<>>, history)]

\* an updateStatus that toggles the 'connected' class on every statusUpdate
updateStatusToggles(w, b) == [w EXCEPT !.status = ~w.status]

\* updateStatus(isConnected) (part_001:600-610)
updateStatus(w, b) == [w EXCEPT !.status = b]

\* window 'load' listener (part_001:473-480): postMessage webviewLoaded
WindowLoad ==
    /\ view # 0
    /\ wv.stage = "loading"
    /\ Len(outbox) < MaxOutbox
    /\ wv' = [wv EXCEPT !.stage = "loaded"]
    /\ outbox' = Append(outbox, WebviewLoadedMsg)
    /\ lastOp' = Op("load", null)
    /\ UNCHANGED <<seen, store, persisted, ran>>
    /\ UNCHANGED <<sinkVars, transportVars>>

\* window 'message' listener (part_001:585-598) handles the next message the
\* provider posted to this document
Deliver(now) ==
    /\ view # 0
    /\ seen < Len(posted)
    /\ LET message == posted[seen + 1] IN
        CASE message.type = "addInsight" ->
                /\ Len(outbox) < MaxOutbox
                /\ LET r == addMessage(wv, outbox, message.text, message.audio, now) IN
                    /\ wv' = r.wv
                    /\ outbox' = r.outbox
          [] message.type = "statusUpdate" ->
                /\ wv' = updateStatus(wv, message.isConnected)
                /\ UNCHANGED outbox
          [] message.type = "loadHistory" ->
                /\ wv' = loadHistory(wv, message.history)
                /\ UNCHANGED outbox
    /\ seen' = seen + 1
    /\ lastOp' = Op("deliver", null)
    /\ UNCHANGED <<store, persisted, ran>>
    /\ UNCHANGED <<sinkVars, transportVars>>

\* the 500 ms timer of renderMessage (part_001:703-717) fires for an element
\* that is still in the document: play() resolves, or rejects and the button
\* gets the 'attention' class
AutoPlayFire(i, allowed) ==
    /\ i \in 1..Len(wv.container)
    /\ wv.container[i].auto = "scheduled"
    /\ wv' = [wv EXCEPT !.container[i].auto = IF allowed THEN "played" ELSE "blocked"]
    /\ lastOp' = Op("autoPlay", null)
    /\ UNCHANGED <<seen, outbox, store, persisted, ran>>
    /\ UNCHANGED <<sinkVars, transportVars>>

\* a clearChat that empties the list and saves before it resets chatHistory
clearChatSavesOld(w, out) ==
    [wv |-> [w EXCEPT !.container = <<>>, !.chatHistory = <<>>],
     outbox |-> Append(out, SaveHistoryMsg(w.chatHistory))]

\* clearChat() (part_001:574-578): empty the container, chatHistory = [],
\* saveHistory()
clearChat(w, out) ==
    [wv |-> [w EXCEPT !.container = <<>>, !.chatHistory = <<>>],
     outbox |-> Append(out, SaveHistoryMsg(<<>>))]

\* the user clicks Clear Chat on a list that holds something
ClearChat ==
    /\ view # 0
    /\ wv.chatHistory # <<>>
    /\ Len(outbox) < MaxOutbox
    /\ LET r == clearChat(wv, outbox) IN
        /\ wv' = r.wv
        /\ outbox' = r.outbox
    /\ lastOp' = Op("clearChat", null)
    /\ UNCHANGED <<seen, store, persisted, ran>>
    /\ UNCHANGED <<sinkVars, transportVars>>

\* onDidReceiveMessage (part_001:33-56) handles the next message of the webview
ReceiveFromWebview ==
    /\ outbox # <<>>
    /\ outbox' = Tail(outbox)
    /\ IF Head(outbox).type = "webviewLoaded"
       THEN /\ WebviewLoadedHandler
            /\ wv' = [wv EXCEPT !.stage = "ready"]
       ELSE /\ SaveHistoryHandler(Head(outbox).history)
            /\ UNCHANGED wv
    /\ UNCHANGED <<seen, store, persisted, ran>>

(* ----------------------------- History Store --------------------------- *)
\* save(history): replaces the entire stored sequence
SaveChatHistory(stored, history) == history

\* load(): the last saved sequence, or the empty sequence if none exists
LoadChatHistory(stored) == stored

\* the host runs the next executeCommand of the provider: the registered
\* handler saves to the store, or loads from it and hands the result to
\* provider.loadHistory
ExecuteCommand ==
    /\ ran < Len(hostCalls)
    /\ LET c == hostCalls[ran + 1] IN
        IF c.command = "cortex.saveChatHistory"
        THEN /\ store' = SaveChatHistory(store, c.history)
             /\ UNCHANGED posted
        ELSE /\ Len(posted) < MaxPosted
             /\ posted' = LoadHistoryPosts(view, posted, LoadChatHistory(store))
             /\ UNCHANGED store
    /\ ran' = ran + 1
    /\ lastOp' = Op("executeCommand", null)
    /\ UNCHANGED <<view, visible, messageQueue, isConnected, calls, hostCalls>>
    /\ UNCHANGED <<wv, seen, outbox, persisted>>
    /\ UNCHANGED transportVars

StartState ==
    /\ phase = "loaded"
    /\ ws = null
    /\ sockets = <<>>
    /\ statusBar = NoStatusBar
    /\ commands = {}
    /\ frames = 0
    /\ platform = ""
    /\ audioJobs = <<>>
    /\ view = 0
    /\ visible = FALSE
    /\ messageQueue = <<>>
    /\ isConnected = FALSE
    /\ posted = <<>>
    /\ calls = <<>>
    /\ hostCalls = <<>>
    /\ wv = FreshWebview
    /\ seen = 0
    /\ outbox = <<>>
    /\ ran = 0
    /\ issued = <<>>
    /\ backendUrl = DefaultBackendUrl
    /\ lastOp = Op("load", null)

\* a first session: nothing has been persisted
Init ==
    /\ StartState
    /\ store = <<>>
    /\ persisted = <<>>

\* a session that begins with any history persisted by an earlier one
SurfaceInit ==
    /\ StartState
    /\ store \in Histories
    /\ persisted = store

Next ==
    \/ Activate
    \/ Connect
    \/ Disconnect
    \/ Deactivate
    \/ \E s \in SocketIds : Opened(s)
    \/ \E s \in SocketIds : Closed(s)
    \/ \E s \in SocketIds, msg \in ErrorMessages : Errored(s, msg)
    \/ \E s \in SocketIds, frame \in Frames : Message(s, frame)
    \/ \E j \in 1..Len(audioJobs), err \in BOOLEAN, os \in Platforms : WriteFileDone(j, err, os)
    \/ \E j \in 1..Len(audioJobs), error \in BOOLEAN : ExecDone(j, error)
    \/ \E j \in 1..Len(audioJobs), unlinkErr \in BOOLEAN : UnlinkDone(j, unlinkErr)

Spec == Init /\ [][Next]_vars

\* the commands and the setting in the user's hands, and the socket's events
CommandNext ==
    \/ Activate
    \/ LoggedConnect
    \/ LoggedDisconnect
    \/ Deactivate
    \/ \E url \in BackendUrls : UpdateConfiguration(url)
    \/ \E s \in SocketIds : Opened(s)
    \/ \E s \in SocketIds : Closed(s)
    \/ \E s \in SocketIds, msg \in ErrorMessages : Errored(s, msg)

CommandSpec == Init /\ [][CommandNext]_vars

SinkNext ==
    \/ \E i \in SampleInsights : AddInsight(i.text, i.audio)
    \/ \E b \in BOOLEAN : SetConnectionStatus(b)
    \/ \E history \in Histories : LoadHistory(history)
    \/ ResolveWebviewView
    \/ HideView

SinkSpec == Init /\ [][SinkNext]_vars

\* the session of the surface scenarios: its insights and its attachments
SessionAddInsight(text, audio) ==
    /\ Len(calls) < MaxSessionInsights
    /\ AddInsight(text, audio)

SessionResolveWebviewView ==
    /\ view < MaxSessionViews
    /\ ResolveWebviewView

SurfaceNext ==
    \/ \E i \in SampleInsights : SessionAddInsight(i.text, i.audio)
    \/ \E b \in BOOLEAN : SetConnectionStatus(b)
    \/ SessionResolveWebviewView
    \/ WindowLoad
    \/ \E now \in Times : Deliver(now)
    \/ \E i \in 1..MaxPosted, allowed \in BOOLEAN : AutoPlayFire(i, allowed)
    \/ ClearChat
    \/ ReceiveFromWebview
    \/ ExecuteCommand

SurfaceSpec == SurfaceInit /\ [][SurfaceNext]_vars

\* provider.loadHistory called on an attached view, with a history or without
AttachedLoadHistory(history) ==
    /\ view # 0
    /\ LoadHistory(history)

\* the webview under any sequence of addInsight and loadHistory messages and
\* Clear Chat clicks
ListNext ==
    \/ \E i \in SampleInsights : SessionAddInsight(i.text, i.audio)
    \/ \E history \in Histories \cup {undefined} : AttachedLoadHistory(history)
    \/ SessionResolveWebviewView
    \/ WindowLoad
    \/ \E now \in Times : Deliver(now)
    \/ \E i \in 1..MaxPosted, allowed \in BOOLEAN : AutoPlayFire(i, allowed)
    \/ ClearChat
    \/ ReceiveFromWebview

ListSpec == Init /\ [][ListNext]_vars

\* the closed event of a socket on which a close is under way is delivered
FairSpec ==
    Spec /\ WF_vars(\E s \in SocketIds : sockets[s].readyState = "CLOSING" /\ Closed(s))

(* ------------------------------ properties ----------------------------- *)
\* the insights that a sequence of posted messages adds, in order
RECURSIVE AddInsightsOf(_)
AddInsightsOf(out) ==
    IF Len(out) = 0 THEN <<>>
    ELSE IF Head(out).type = "addInsight"
    THEN <<Insight(Head(out).text, Head(out).audio)>> \o AddInsightsOf(Tail(out))
    ELSE AddInsightsOf(Tail(out))

C2_ConnectWithHandleIsNoOp ==
    [][(lastOp'.op = "connect" /\ ws # null)
        => (ws' = ws /\ sockets' = sockets /\ statusBar' = statusBar)]_vars

C2_Witness ==
    /\ lastOp.op = "connect"
    /\ ws = 1
    /\ Len(sockets) = 1
    /\ sockets[1].readyState = "OPEN"
    /\ ConnectionState = "Connected"

\* C3: at most one socket created by the client is not yet closed.
C3_AtMostOneLiveSocket == Cardinality(Live(sockets)) <= 1

C3_Witness ==
    /\ Len(sockets) = 2
    /\ sockets[1].readyState = "CLOSED"
    /\ sockets[2].readyState = "OPEN"
    /\ ws = 2

\* C4: every handled closed event leaves the state Disconnected and the
\* handle null, and a connect that follows it creates a new socket and makes
\* it the handle.
C4_ClosedResetsAndPermitsConnect ==
    [][/\ lastOp'.op = "close" => (ws' = null /\ ConnectionState' = "Disconnected")
       /\ (lastOp.op = "close" /\ lastOp'.op = "connect")
            => (Len(sockets') = Len(sockets) + 1 /\ ws' = Len(sockets')
                /\ sockets'[ws'].readyState = "CONNECTING")]_vars

C4_Witness ==
    /\ lastOp.op = "connect"
    /\ Len(sockets) = 2
    /\ sockets[1].readyState = "CLOSED"
    /\ sockets[1].errors = 1
    /\ ws = 2
    /\ ConnectionState = "Connecting"

\* C5: a disconnect without a handle changes nothing: the handle stays null,
\* the state stays Disconnected, no socket is touched.
C5_DisconnectWithoutHandleIsNoOp ==
    [][(lastOp'.op = "disconnect" /\ ws = null)
        => (ws' = null /\ sockets' = sockets /\ statusBar' = statusBar
            /\ ConnectionState' = "Disconnected")]_vars

C5_Witness ==
    /\ lastOp.op = "disconnect"
    /\ ws = null
    /\ ConnectionState = "Disconnected"
    /\ Len(sockets) = 1

\* C6: a disconnect with a handle present puts that socket into closing, and
\* with the closed event delivered it leads to Disconnected with a null handle.
C6_DisconnectLeadsToDisconnected ==
    /\ [][(lastOp'.op = "disconnect" /\ ws # null)
            => (ws' = ws /\ sockets'[ws].readyState = "CLOSING")]_vars
    /\ (lastOp.op = "disconnect" /\ ws # null)
            ~> (ws = null /\ ConnectionState = "Disconnected")

C6_Witness ==
    /\ lastOp.op = "disconnect"
    /\ ws # null
    /\ sockets[ws].readyState = "CLOSING"
    /\ ConnectionState = "Connected"

\* C7: a handled errored event shows Error with the raw error message, puts
\* the socket into closing, creates no socket, and the socket never opens again.
C7_ErrorReportedAndSocketClosed ==
    [][/\ lastOp'.op = "error"
            => /\ ConnectionState' = "Error"
               /\ statusBar'.message = lastOp'.message
               /\ Len(sockets') = Len(sockets)
               /\ sockets'[lastOp'.sock].readyState = "CLOSING"
       /\ \A s \in SocketIds :
            sockets[s].errors > 0 => sockets'[s].readyState \in {"CLOSING", "CLOSED"}]_vars

C7_Witness ==
    /\ lastOp.op = "error"
    /\ lastOp.message = "connect ETIMEDOUT"
    /\ ConnectionState = "Error"
    /\ statusBar.message = "connect ETIMEDOUT"
    /\ sockets[lastOp.sock].readyState = "CLOSING"

\* C8: only activate and the connect command create a socket, and a client
\* that is Disconnected with a null handle stays so under every other step.
C8_NoAutomaticReconnection ==
    [][/\ Len(sockets') > Len(sockets) => lastOp'.op \in {"connect", "activate"}
       /\ (ws = null /\ ConnectionState = "Disconnected"
           /\ lastOp'.op \notin {"connect", "activate"})
            => (ws' = null /\ ConnectionState' = "Disconnected" /\ Live(sockets') = {})]_vars

C8_Witness ==
    /\ lastOp.op = "close"
    /\ ws = null
    /\ ConnectionState = "Disconnected"
    /\ Len(sockets) = 2
    /\ Live(sockets) = {}

\* C9: after each lifecycle callback (opened, closed, errored) the sink's cached
\* connection flag equals (ConnectionState = Connected).
C9_SinkFlagFollowsConnectionState ==
    lastOp.op \in {"open", "close", "error"}
        => isConnected = (ConnectionState = "Connected")

\* C10: a text frame that is valid JSON with type "insight" makes the message
\* handler hand exactly one insight to the sink: the frame's text and its audio,
\* or the empty string when the frame has no audio.
C10_InsightFrameReachesSink ==
    [][(/\ lastOp'.op = "message"
        /\ ~lastOp'.frame.binary
        /\ ~parseWebSocketMessage(lastOp'.frame.payload).isNull
        /\ Member(parseWebSocketMessage(lastOp'.frame.payload).message, "type", "") = "insight")
        => LET m == parseWebSocketMessage(lastOp'.frame.payload).message IN
           calls' = Append(calls, Insight(Member(m, "text", ""), Member(m, "audio", "")))]_vars

\* C11: a text frame that is not valid JSON (the empty one included) hands
\* nothing to the sink, creates no entry, and leaves the handle, the sockets
\* and the connection state as they were.
C11_MalformedTextDropped ==
    [][(/\ lastOp'.op = "message"
        /\ ~lastOp'.frame.binary
        /\ parseWebSocketMessage(lastOp'.frame.payload).isNull)
        => /\ calls' = calls
           /\ messageQueue' = messageQueue
           /\ posted' = posted
           /\ ws' = ws
           /\ sockets' = sockets
           /\ statusBar' = statusBar]_vars

C11_Witness ==
    /\ lastOp.op = "message"
    /\ lastOp.frame = TextFrame(NotJsonTokens)
    /\ frames = 2
    /\ calls = <<>>
    /\ ConnectionState = "Connected"

\* C12: a frame that parses as JSON with a type other than "insight" is
\* dropped: nothing reaches the sink, no audio is played, the connection state
\* is unchanged.
C12_UnknownTypeDropped ==
    [][(/\ lastOp'.op = "message"
        /\ ~parseWebSocketMessage(lastOp'.frame.payload).isNull
        /\ Member(parseWebSocketMessage(lastOp'.frame.payload).message, "type", "") # "insight")
        => /\ calls' = calls
           /\ messageQueue' = messageQueue
           /\ posted' = posted
           /\ audioJobs' = audioJobs
           /\ ws' = ws
           /\ statusBar' = statusBar]_vars

\* C13: a binary frame that fails JSON parsing starts one OS-level playback
\* and hands nothing to the sink; a text frame starts no playback.
C13_BinaryPlayedTextNot ==
    [][lastOp'.op = "message"
        => /\ (lastOp'.frame.binary /\ parseWebSocketMessage(lastOp'.frame.payload).isNull)
                => /\ audioJobs' = Append(audioJobs, NewAudioJob)
                   /\ calls' = calls
                   /\ messageQueue' = messageQueue
                   /\ posted' = posted
           /\ ~lastOp'.frame.binary => audioJobs' = audioJobs]_vars

C13_Witness ==
    /\ lastOp.op = "message"
    /\ lastOp.frame = BinaryFrame(<<W("RIFF")>>)
    /\ Len(audioJobs) = 1
    /\ audioJobs[1].stage = "writing"
    /\ calls = <<>>

C15_QueueOnlyBeforeFirstAttachment ==
    [][/\ view' # 0 => messageQueue' = <<>>
       /\ view # 0 => view' # 0
       /\ (view # 0 /\ lastOp'.op = "addInsight")
            => /\ Len(posted') = Len(posted) + 1
               /\ posted'[Len(posted')].type = "addInsight"]_vars

C15_Witness ==
    /\ lastOp.op = "addInsight"
    /\ view = 2
    /\ messageQueue = <<>>
    /\ Len(calls) = 2
    /\ posted = <<AddInsightMsg(1, "Hello", ""), AddInsightMsg(2, "Hi", "QUJD")>>

\* C16: setConnectionStatus(b) caches b and posts statusUpdate{b} exactly when
\* a view is attached; attachment itself posts no statusUpdate and leaves the
\* cached value alone; once the provider has handled webviewLoaded and the
\* webview has handled everything posted, the status shown is the cached one.
C16_StatusCachedPostedAndRestored ==
    /\ [](wv.stage = "ready" /\ seen = Len(posted) => wv.status = isConnected)
    /\ [][/\ lastOp'.op = "setConnectionStatus" =>
                /\ isConnected' = (lastOp'.message = "true")
                /\ posted' = IF view # 0
                             THEN Append(posted, StatusUpdateMsg(view, isConnected'))
                             ELSE posted
          /\ lastOp'.op = "resolveWebviewView" =>
                /\ isConnected' = isConnected
                /\ \A k \in (Len(posted) + 1)..Len(posted') :
                       posted'[k].type # "statusUpdate"]_vars

\* a status set while no view was attached is shown after webviewLoaded,
\* through the one statusUpdate the provider posted
C16_Witness ==
    /\ wv.stage = "ready"
    /\ seen = Len(posted)
    /\ isConnected
    /\ wv.status
    /\ Len(posted) = 1
    /\ posted[1] = StatusUpdateMsg(view, TRUE)

\* C17 as stated: when the history-load request is issued, the cached status
\* has already been re-sent to the attached view.
C17_StatusResentBeforeHistoryRequest ==
    [][lastOp'.op = "webviewLoaded" =>
          LET c == hostCalls'[Len(hostCalls')] IN
          \E k \in 1..c.at : /\ posted'[k].type = "statusUpdate"
                             /\ posted'[k].view = view]_vars

\* C17: attachment drains the queue, posting one addInsight per queued insight
\* in order and nothing else, and issues no request; on webviewLoaded the
\* provider first issues the history-load request and then re-sends the cached
\* status; the loaded history is posted after the request.
C17_DrainThenRequestThenStatus ==
    [][/\ lastOp'.op = "resolveWebviewView" =>
            /\ messageQueue' = <<>>
            /\ Len(posted') = Len(posted) + Len(messageQueue)
            /\ \A k \in 1..Len(messageQueue) :
                   posted'[Len(posted) + k] =
                       AddInsightMsg(view', messageQueue[k].text, messageQueue[k].audio)
            /\ hostCalls' = hostCalls
       /\ lastOp'.op = "webviewLoaded" =>
            /\ Len(hostCalls') = Len(hostCalls) + 1
            /\ hostCalls'[Len(hostCalls')].command = "cortex.loadChatHistory"
            /\ hostCalls'[Len(hostCalls')].at = Len(posted)
            /\ posted' = Append(posted, StatusUpdateMsg(view, isConnected))
       /\ (lastOp'.op = "executeCommand" /\ posted' # posted) =>
            /\ hostCalls[ran + 1].command = "cortex.loadChatHistory"
            /\ Len(posted') > hostCalls[ran + 1].at
            /\ posted'[Len(posted')].type = "loadHistory"]_vars

\* a queued insight was flushed at attachment, then webviewLoaded was handled:
\* the request was issued with one message posted, the status came second
C17_Witness ==
    /\ lastOp.op = "webviewLoaded"
    /\ Len(posted) = 2
    /\ posted[1].type = "addInsight"
    /\ posted[2].type = "statusUpdate"
    /\ hostCalls[Len(hostCalls)].command = "cortex.loadChatHistory"
    /\ hostCalls[Len(hostCalls)].at = 1

\* the history the store holds after the first n executeCommand calls of hc
\* have run on a store that held `initial`: that of the last save among them
RECURSIVE LastSaved(_, _, _)
LastSaved(hc, n, initial) ==
    IF n = 0 THEN initial
    ELSE IF hc[n].command = "cortex.saveChatHistory" THEN hc[n].history
    ELSE LastSaved(hc, n - 1, initial)

InsightsOf(history) ==
    [k \in 1..Len(history) |-> Insight(history[k].text, history[k].audio)]

\* nothing is in flight between provider, webview and host
Quiescent ==
    /\ messageQueue = <<>>
    /\ seen = Len(posted)
    /\ outbox = <<>>
    /\ ran = Len(hostCalls)

\* the user has not cleared the chat
NeverCleared ==
    \A k \in 1..Len(hostCalls) :
        hostCalls[k].command = "cortex.saveChatHistory" => hostCalls[k].history # <<>>

\* C19: once attachment has completed (queue flushed, webviewLoaded handled,
\* loadHistory processed, every save run), the surface shows and the store
\* holds the history persisted before, followed by the insights delivered since.
C19_HistoryMirroredAndReloaded ==
    (view # 0 /\ wv.stage = "ready" /\ Quiescent /\ NeverCleared) =>
        /\ InsightsOf(wv.chatHistory) = InsightsOf(persisted) \o calls
        /\ InsightsOf(store) = InsightsOf(persisted) \o calls
        /\ Len(wv.container) = Len(wv.chatHistory)

\* the entry renderMessage shows for a loaded history entry
Shown(entry) ==
    [text |-> entry.text, timestamp |-> entry.timestamp, audio |-> entry.audio,
     auto |-> "none"]

\* C20: a loadHistory message replaces the list with exactly the given
\* entries, in order, none of them scheduled for auto-play; an addInsight
\* message appends one entry to the end of the list, scheduled for auto-play
\* exactly when it carries audio.
C20_LoadReplacesAddAppends ==
    [][lastOp'.op = "deliver" =>
          LET message == posted[seen + 1] IN
          /\ message.type = "loadHistory" =>
                wv'.container = [k \in 1..Len(message.history) |-> Shown(message.history[k])]
          /\ message.type = "addInsight" =>
                /\ Len(wv'.container) = Len(wv.container) + 1
                /\ SubSeq(wv'.container, 1, Len(wv.container)) = wv.container
                /\ wv'.container[Len(wv'.container)].text = message.text
                /\ wv'.container[Len(wv'.container)].audio = message.audio
                /\ wv'.container[Len(wv'.container)].auto =
                       IF message.audio # "" THEN "scheduled" ELSE "none"]_vars

\* a history whose entry carries audio was loaded over a list that showed an
\* insight scheduled for auto-play: the list is the loaded entry, unscheduled
C20_Witness ==
    /\ lastOp.op = "deliver"
    /\ seen >= 2
    /\ posted[seen].type = "loadHistory"
    /\ Len(posted[seen].history) = 1
    /\ posted[seen].history[1].audio # ""
    /\ wv.container = <<Shown(posted[seen].history[1])>>
    /\ \E k \in 1..(seen - 1) : posted[k].type = "addInsight" /\ posted[k].audio # ""

\* whether renderMessage gave the entry an <audio> element (part_001:676-683)
HasAudioElement(entry) == entry.audio # ""

\* C21: attachment posts exactly one addInsight message per queued insight,
\* with its text and audio; the webview renders each such message as exactly
\* one entry, with an audio element holding the audio exactly when the audio is
\* non-empty; an entry without audio is never scheduled for, nor given, an
\* auto-play attempt.
C21_QueuedInsightRenderedOnce ==
    /\ [](\A k \in 1..Len(wv.container) :
             ~HasAudioElement(wv.container[k]) => wv.container[k].auto = "none")
    /\ [][/\ lastOp'.op = "resolveWebviewView" =>
                AddInsightsOf(SubSeq(posted', Len(posted) + 1, Len(posted'))) = messageQueue
          /\ (lastOp'.op = "deliver" /\ posted[seen + 1].type = "addInsight") =>
                /\ Len(wv'.container) = Len(wv.container) + 1
                /\ LET entry == wv'.container[Len(wv'.container)] IN
                    /\ entry.text = posted[seen + 1].text
                    /\ entry.audio = posted[seen + 1].audio
                    /\ HasAudioElement(entry) <=> posted[seen + 1].audio # ""]_vars

\* the insight ("Hi", "QUJD") was flushed to a webview that had not yet
\* signalled readiness and is shown as the one entry, with its audio element
C21_Witness ==
    /\ calls = <<Insight("Hi", "QUJD")>>
    /\ posted = <<AddInsightMsg(view, "Hi", "QUJD")>>
    /\ seen = 1
    /\ Len(wv.container) = 1
    /\ HasAudioElement(wv.container[1])
    /\ wv.container[1].audio = "QUJD"

\* the playAudio jobs whose callbacks have all run
Finished(job) == job.stage \in {"writeFailed", "unsupported", "unlinkFailed", "deleted"}

\* C22: once every callback of a playAudio call has run, the temporary file
\* it wrote is gone, unless the operating system refused to delete it.
C22_WrittenFileDeleted ==
    \A j \in 1..Len(audioJobs) :
        (Finished(audioJobs[j]) /\ audioJobs[j].stage # "unlinkFailed") => ~audioJobs[j].file

\* C23: once connect, disconnect, connect have been run in that order and
\* the first socket's events are over (it is closed, and nothing failed), the
\* extension holds a handle to a socket that is connecting or open.
C23_ConnectDisconnectConnectWorks ==
    (/\ phase = "active"
     /\ issued = <<"connect", "disconnect", "connect">>
     /\ sockets[1].readyState = "CLOSED"
     /\ \A s \in SocketIds : sockets[s].errors = 0
     /\ \A s \in SocketIds : s > 1 => sockets[s].readyState = "CONNECTING")
    => /\ ws # null
       /\ sockets[ws].readyState \in {"CONNECTING", "OPEN"}

\* C24: after activation the four commands are registered.
C24_FourCommandsRegistered ==
    phase = "active" =>
        {"cortex-vs.connect", "cortex-vs.disconnect",
         "cortex.saveChatHistory", "cortex.loadChatHistory"} \subseteq commands

\* C25: every socket that connect() opens targets the backend URL configured
\* at that moment.
C25_SocketTargetsConfiguredUrl ==
    [][Len(sockets') > Len(sockets) =>
          sockets'[Len(sockets')].url = backendUrl]_vars

\* C26: loadHistory called while no view is attached changes nothing: no
\* message is posted, the queue and the cached flag stay as they are; nothing
\* is ever posted while no view is attached, and attachment posts no
\* loadHistory message.
C26_LoadHistoryUnattachedNoEffect ==
    /\ [](view = 0 => posted = <<>>)
    /\ [][/\ (lastOp'.op = "loadHistory" /\ view = 0) =>
                UNCHANGED <<view, visible, messageQueue, isConnected, posted, calls, hostCalls>>
          /\ lastOp'.op = "resolveWebviewView" =>
                \A k \in (Len(posted) + 1)..Len(posted') : posted'[k].type # "loadHistory"]_vars

\* loadHistory ran while no view was attached and an insight was waiting in
\* the queue: the insight still waits, nothing was posted
C26_Witness ==
    /\ lastOp.op = "loadHistory"
    /\ view = 0
    /\ posted = <<>>
    /\ Len(messageQueue) = 1
    /\ isConnected

\* C27: a second setConnectionStatus(b) right after the first leaves the
\* cached flag as it is, and the webview that handles the second statusUpdate
\* after the first stays as it is.
C27_SetConnectionStatusIdempotent ==
    [][/\ (/\ lastOp.op = "setConnectionStatus"
           /\ lastOp'.op = "setConnectionStatus"
           /\ lastOp'.message = lastOp.message) => isConnected' = isConnected
       /\ (/\ lastOp'.op = "deliver"
           /\ seen >= 1
           /\ posted[seen + 1].type = "statusUpdate"
           /\ posted[seen].type = "statusUpdate"
           /\ posted[seen].view = posted[seen + 1].view
           /\ posted[seen].isConnected = posted[seen + 1].isConnected) => wv' = wv]_vars

\* setConnectionStatus(true) was called twice on an attached view and the
\* webview has handled both messages: it shows Connected
C27_Witness ==
    /\ lastOp.op = "deliver"
    /\ seen = 2
    /\ posted[1] = StatusUpdateMsg(view, TRUE)
    /\ posted[2] = StatusUpdateMsg(view, TRUE)
    /\ wv.status
    /\ isConnected

\* C28: once activated, the handle is null exactly when the status bar shows
\* Disconnected.
C28_HandleNullIffDisconnected ==
    phase # "loaded" => (ws = null <=> ConnectionState = "Disconnected")

\* an error on a socket the user was already disconnecting: Error is shown
\* and the handle is still set
C28_Witness ==
    /\ ConnectionState = "Error"
    /\ ws # null
    /\ sockets[ws].readyState = "CLOSING"
    /\ lastOp.op = "error"
    /\ frames > 0

\* C29: the status bar's command is disconnect whenever Connected is shown
\* and connect whenever Disconnected is shown.
C29_CommandMatchesState ==
    /\ ConnectionState = "Connected" => statusBar.command = "cortex-vs.disconnect"
    /\ ConnectionState = "Disconnected" => statusBar.command = "cortex-vs.connect"

\* a connection that had been open (a frame arrived on it) has closed: the
\* bar shows Disconnected with the connect command
C29_Witness ==
    /\ lastOp.op = "close"
    /\ frames > 0
    /\ ConnectionState = "Disconnected"
    /\ statusBar.command = "cortex-vs.connect"
    /\ Len(sockets) = 1

\* C30: with the closed event of a closing socket delivered, a client that
\* shows Error comes to show Disconnected with the handle cleared.
C30_ErrorIsTransient ==
    (ConnectionState = "Error") ~> (ConnectionState = "Disconnected" /\ ws = null)

\* the socket whose error was reported has closed: Disconnected, no handle
C30_Witness ==
    /\ lastOp.op = "close"
    /\ sockets[lastOp.sock].errors > 0
    /\ ConnectionState = "Disconnected"
    /\ ws = null

\* C31: the visible list always has one entry per entry of chatHistory, in the
\* same order, with the same text, audio and timestamp; a loadHistory message
\* without a history leaves the webview as it is.
C31_ListMatchesChatHistory ==
    /\ [](/\ Len(wv.container) = Len(wv.chatHistory)
          /\ \A k \in 1..Len(wv.container) :
                /\ wv.container[k].text = wv.chatHistory[k].text
                /\ wv.container[k].audio = wv.chatHistory[k].audio
                /\ wv.container[k].timestamp = wv.chatHistory[k].timestamp)
    /\ [][(/\ lastOp'.op = "deliver"
           /\ posted[seen + 1].type = "loadHistory"
           /\ posted[seen + 1].history = undefined) => wv' = wv]_vars

\* a loadHistory message without a history was handled by a webview that
\* shows one insight: the insight is still shown
C31_Witness ==
    /\ lastOp.op = "deliver"
    /\ seen >= 2
    /\ posted[seen] = LoadHistoryMsg(view, undefined)
    /\ Len(wv.chatHistory) = 1
    /\ Len(wv.container) = 1
    /\ wv.container[1].text = wv.chatHistory[1].text

\* every saveHistory message the webview has posted has reached the store
SavesProcessed ==
    /\ \A k \in 1..Len(outbox) : outbox[k].type # "saveHistory"
    /\ ran = Len(hostCalls)
    /\ \E k \in 1..Len(hostCalls) : hostCalls[k].command = "cortex.saveChatHistory"

\* C32: each addInsight message handled by the webview appends one entry to
\* chatHistory and posts one saveHistory carrying the whole of it, loadHistory
\* and statusUpdate post none; and once every saveHistory posted has been
\* processed, the store holds the webview's chatHistory.
C32_StoreEqualsChatHistory ==
    /\ [][lastOp'.op = "deliver" =>
            LET message == posted[seen + 1] IN
            /\ message.type = "addInsight" =>
                /\ \E now \in Times : wv'.chatHistory =
                       Append(wv.chatHistory, HistoryEntry(message.text, message.audio, now))
                /\ outbox' = Append(outbox, SaveHistoryMsg(wv'.chatHistory))
            /\ message.type \in {"loadHistory", "statusUpdate"} => outbox' = outbox]_vars
    /\ []((view # 0 /\ seen = Len(posted) /\ SavesProcessed) => store = wv.chatHistory)

\* C33: Clear Chat empties the visible list and chatHistory and posts
\* saveHistory with the empty sequence; the provider hands the empty sequence
\* to save, after which the store is empty and load() returns the empty
\* sequence; a webview handed the empty history shows no entries.
C33_ClearChatEmptiesListAndStore ==
    [][/\ lastOp'.op = "clearChat" =>
            /\ wv'.container = <<>>
            /\ wv'.chatHistory = <<>>
            /\ outbox' = Append(outbox, SaveHistoryMsg(<<>>))
       /\ (lastOp'.op = "saveHistory" /\ Head(outbox).history = <<>>) =>
            hostCalls'[Len(hostCalls')] =
                HostCall("cortex.saveChatHistory", <<>>, Len(posted))
       /\ (/\ lastOp'.op = "executeCommand"
           /\ hostCalls[ran + 1].command = "cortex.saveChatHistory"
           /\ hostCalls[ran + 1].history = <<>>) =>
            /\ store' = <<>>
            /\ LoadChatHistory(store') = <<>>
       /\ (/\ lastOp'.op = "executeCommand"
           /\ hostCalls[ran + 1].command = "cortex.loadChatHistory"
           /\ store = <<>>) =>
            posted' = Append(posted, LoadHistoryMsg(view, <<>>))
       /\ (/\ lastOp'.op = "deliver"
           /\ posted[seen + 1] = LoadHistoryMsg(view, <<>>)) =>
            /\ wv'.container = <<>>
            /\ wv'.chatHistory = <<>>]_vars

\* a history persisted by an earlier session was loaded and shown, then
\* cleared, and the save of the empty sequence has run: list and store are empty
C33_Witness ==
    /\ persisted # <<>>
    /\ lastOp.op = "executeCommand"
    /\ ran = 2
    /\ hostCalls[1].command = "cortex.loadChatHistory"
    /\ hostCalls[2] = HostCall("cortex.saveChatHistory", <<>>, hostCalls[2].at)
    /\ store = <<>>
    /\ wv.container = <<>>
    /\ wv.chatHistory = <<>>
    /\ \E k \in 1..seen : posted[k] = LoadHistoryMsg(view, persisted)

\* C34: deactivate puts the handle's socket into closing when there is a
\* handle and changes no socket when there is none; it creates no socket and
\* leaves handle and status bar alone; with the closed event delivered, a
\* deactivate with a handle present leads to a null handle.
C34_DeactivateClosesSocket ==
    /\ [][lastOp'.op = "deactivate" =>
            /\ Len(sockets') = Len(sockets)
            /\ ws' = ws
            /\ statusBar' = statusBar
            /\ ws # null => /\ sockets'[ws].readyState = "CLOSING"
                            /\ \A s \in SocketIds : s # ws => sockets'[s] = sockets[s]
            /\ ws = null => sockets' = sockets]_vars
    /\ (lastOp.op = "deactivate" /\ ws # null) ~> (ws = null)

\* the extension was deactivated while its connection was open: the socket is
\* closing and the handle is still set
C34_Witness ==
    /\ lastOp.op = "deactivate"
    /\ phase = "deactivated"
    /\ ws # null
    /\ sockets[ws].readyState = "CLOSING"
    /\ ConnectionState = "Connected"
    /\ Len(sockets) = 1

====
